---- MODULE Spec2Model ----
(***************************************************************************)
(* Model of the scollector agent: startup (main.go), the collector         *)
(* registry (ICMP, Vsphere, package init), the scheduler and the delivery  *)
(* pipeline, and the two collectors c_icmp and c_vsphere.                  *)
(*                                                                         *)
(* Go strings are sequences of one-character strings, so that Split,       *)
(* SplitN, LastIndex, Contains, TrimSpace and the name formatting          *)
(* fmt.Sprintf("icmp-%s", host) are computed as the code computes them.    *)
(***************************************************************************)
EXTENDS Integers, Sequences, FiniteSets, TLC

\* ------------------------------------------------------------------ bounds
\* Largest -b value tried.
MaxFlagBatch == 1
\* Total number of collect() invocations explored in one run.
MaxCollects == 2
\* Largest sample batch one invocation returns.
MaxBatchPoints == 1

\* ----------------------------------------------------------------- strings

\* strings.Index(s, c) for a one-character separator c: 0-based, -1 if absent.
RECURSIVE IndexFrom(_, _, _)
IndexFrom(s, c, i) ==
    IF i > Len(s) THEN -1
    ELSE IF s[i] = c THEN i - 1
    ELSE IndexFrom(s, c, i + 1)

Index(s, c) == IndexFrom(s, c, 1)

\* strings.LastIndex(s, c): 0-based, -1 if absent.
RECURSIVE LastIndexFrom(_, _, _)
LastIndexFrom(s, c, i) ==
    IF i < 1 THEN -1
    ELSE IF s[i] = c THEN i - 1
    ELSE LastIndexFrom(s, c, i - 1)

LastIndex(s, c) == LastIndexFrom(s, c, Len(s))

\* s[lo:hi] of Go (0-based, hi exclusive).
Slice(s, lo, hi) == SubSeq(s, lo + 1, hi)

\* strings.Split(s, c): every piece between separators, empty pieces kept.
RECURSIVE Split(_, _)
Split(s, c) ==
    LET i == Index(s, c)
    IN  IF i = -1 THEN <<s>>
        ELSE <<Slice(s, 0, i)>> \o Split(Slice(s, i + 1, Len(s)), c)

\* strings.SplitN(s, c, 2): cut at the first separator only.
SplitN2(s, c) ==
    LET i == Index(s, c)
    IN  IF i = -1 THEN <<s>>
        ELSE <<Slice(s, 0, i), Slice(s, i + 1, Len(s))>>

\* strings.Contains(s, sub).
Contains(s, sub) ==
    \E k \in 0..(Len(s) - Len(sub)) : SubSeq(s, k + 1, k + Len(sub)) = sub

\* strings.TrimSpace(s).
RECURSIVE TrimLeft(_)
TrimLeft(s) ==
    IF s # <<>> /\ Head(s) = " " THEN TrimLeft(Tail(s)) ELSE s

RECURSIVE TrimRight(_)
TrimRight(s) ==
    IF s # <<>> /\ s[Len(s)] = " " THEN TrimRight(SubSeq(s, 1, Len(s) - 1)) ELSE s

TrimSpace(s) == TrimRight(TrimLeft(s))

\* ------------------------------------------------------------------- flags
EmptyStr == <<>>
sBosun == <<"b", "o", "s", "u", "n">>
sHostA == <<"a">>
sHostB == <<"b">>

\* The flag defaults of main.go.
DefaultFlags ==
    [ Filter          |-> EmptyStr,
      List            |-> FALSE,
      PrintFlag       |-> FALSE,
      Host            |-> sBosun,
      ColDir          |-> EmptyStr,
      BatchSize       |-> 0,
      SNMP            |-> EmptyStr,
      ICMP            |-> EmptyStr,
      Vsphere         |-> EmptyStr,
      Fake            |-> 0,
      JSON            |-> FALSE,
      DisableMetadata |-> FALSE,
      Version         |-> FALSE ]

\* The -h, -i, -v, -s, -c, -f values tried.
sBadURL == <<"%">>
sICMPTwice == <<"a", ",", "a">>
sICMPTwo == <<"a", ",", "b">>
sVsphereOne == <<"u", ":", "p", "@", "a">>
sVsphereSameHost == <<"u", ":", "p", "@", "a", ",", "v", ":", "q", "@", "a">>
sVsphereBad == <<"u", "@", "a">>
sSNMPOne == <<"c", "@", "a">>
sSNMPBad == <<"a">>
sColDir == <<"d">>
sFilterIcmp == <<"i", "c", "m", "p">>
sFilterB == <<"-", "b">>

\* scollector.conf contents tried.
sConfHostEmpty == <<"h", "o", "s", "t", "=">>
sConfIcmp == <<"x", "\n", " ", "i", "c", "m", "p", " ", "=", " ", "a", ",", "a", " ">>

\* Keys of scollector.conf.
kHost == <<"h", "o", "s", "t">>
kFilter == <<"f", "i", "l", "t", "e", "r">>
kColDir == <<"c", "o", "l", "d", "i", "r">>
kSNMP == <<"s", "n", "m", "p">>
kICMP == <<"i", "c", "m", "p">>
kVsphere == <<"v", "s", "p", "h", "e", "r", "e">>

\* Build-time constant of main.go.
VersionDate == 0

\* const maxMem of the watchdog goroutine.
maxMem == 500 * 1024 * 1024

\* Values runtime.ReadMemStats may report in m.Alloc.
MemValues == {maxMem, maxMem + 1}

VARIABLES
    flag,            \* the flag variables of main.go
    conf,            \* scollector.conf: [readable, text]
    pc,              \* position of main()
    status,          \* "running", or how the process ended
    registry,        \* collectors.collectors
    c,               \* result of collectors.Search (empty before it)
    initFailed,      \* indices of c whose Init() failed
    u,               \* *url.URL of parseHost: [nil, url]
    err,             \* error of parseHost
    listed,          \* lines printed by list()
    metadataStarted, \* metadata.Init succeeded
    defaultFreq,     \* collectors.DefaultFreq in seconds (0: the package's own default)
    schedStarted,    \* collectors.Run has been called
    sched,           \* collectors handed to collectors.Run
    pending,         \* per scheduled collector: Points not yet sent on cdp
    ncollect,        \* per scheduled collector: number of collect() calls
    senderStarted,   \* collect.InitChan has started the sender
    queue,           \* the sender's queue
    BatchSize,       \* collect.BatchSize
    batches,         \* batches handed to delivery, in order
    printed,         \* lines written by printPut
    watchdogStarted, \* the watchdog goroutine exists
    m,               \* the watchdog's m.Alloc
    icmp,            \* state of one c_icmp invocation
    vs               \* input and result of one c_vsphere invocation

mainVars == <<flag, conf, pc, status, registry, c, initFailed, u, err, listed,
              metadataStarted, defaultFreq>>
runVars == <<schedStarted, sched, pending, ncollect, senderStarted, queue, BatchSize, batches,
             printed, watchdogStarted, m>>
colVars == <<icmp, vs>>
vars == <<mainVars, runVars, colVars>>

\* ---------------------------------------------------------------- registry
icmpPrefix == <<"i", "c", "m", "p", "-">>
vspherePrefix == <<"v", "s", "p", "h", "e", "r", "e", "-">>
snmpIfacesPrefix == <<"s", "n", "m", "p", "-", "i", "f", "a", "c", "e", "s", "-">>
snmpCiscoPrefix == <<"s", "n", "m", "p", "-", "c", "i", "s", "c", "o", "-">>
sFake == <<"f", "a", "k", "e">>
sSystemWindows == <<"c", "_", "s", "y", "s", "t", "e", "m", "_", "w", "i", "n", "d", "o", "w", "s">>

\* A registered collector: its name, the source that registered it, and whether
\* it carries an init hook (the IntervalCollector literals of ICMP, Vsphere and
\* system_windows.go set none).
Collector(name, kind, hook) == [name |-> name, kind |-> kind, hook |-> hook]

\* func init() of system_windows.go: F only, the name is derived from F.
RegisterSystemWindows(reg) ==
    Append(reg, Collector(sSystemWindows, "system", FALSE))

\* collectors.ICMP(host)
ICMP(reg, host) ==
    Append(reg, Collector(icmpPrefix \o host, "icmp", FALSE))

\* collectors.Vsphere(user, pwd, host)
Vsphere(reg, user, pwd, host) ==
    Append(reg, Collector(vspherePrefix \o host, "vsphere", FALSE))

\* collectors.SNMPIfaces and collectors.SNMPCisco
SNMPIfaces(reg, community, host) ==
    Append(reg, Collector(snmpIfacesPrefix \o host, "snmp", TRUE))

SNMPCisco(reg, community, host) ==
    Append(reg, Collector(snmpCiscoPrefix \o host, "snmp", TRUE))

\* collectors.InitPrograms(dir): one collector per program of dir; the
\* directory holds one program, named after the directory.
InitPrograms(reg, dir) ==
    Append(reg, Collector(dir, "program", TRUE))

\* collectors.InitFake(n)
InitFake(reg, n) ==
    Append(reg, Collector(sFake, "fake", TRUE))

\* collectors.Search(s): the collectors whose name contains s, in registry order.
RECURSIVE Search(_, _)
Search(reg, s) ==
    IF reg = <<>> THEN <<>>
    ELSE (IF Contains(Head(reg).name, s) THEN <<Head(reg)>> ELSE <<>>)
         \o Search(Tail(reg), s)

\* The -i loop of main: one ICMP registration per comma-separated piece.
RECURSIVE RegisterICMPHosts(_, _)
RegisterICMPHosts(reg, hosts) ==
    IF hosts = <<>> THEN reg
    ELSE RegisterICMPHosts(ICMP(reg, Head(hosts)), Tail(hosts))

\* The -s loop of main: [reg, fatal]; an entry without exactly one "@" is fatal.
RECURSIVE RegisterSNMPEntries(_, _)
RegisterSNMPEntries(reg, entries) ==
    IF entries = <<>> THEN [reg |-> reg, fatal |-> FALSE]
    ELSE LET sp == Split(Head(entries), "@")
         IN  IF Len(sp) # 2 THEN [reg |-> reg, fatal |-> TRUE]
             ELSE RegisterSNMPEntries(
                      SNMPCisco(SNMPIfaces(reg, sp[1], sp[2]), sp[1], sp[2]),
                      Tail(entries))

\* The -v loop of main: user:password@host, the password may hold ":" and "@".
RECURSIVE RegisterVsphereEntries(_, _)
RegisterVsphereEntries(reg, entries) ==
    IF entries = <<>> THEN [reg |-> reg, fatal |-> FALSE]
    ELSE LET sp == SplitN2(Head(entries), ":")
         IN  IF Len(sp) # 2 THEN [reg |-> reg, fatal |-> TRUE]
             ELSE LET user == sp[1]
                      idx == LastIndex(sp[2], "@")
                  IN  IF idx = -1 THEN [reg |-> reg, fatal |-> TRUE]
                      ELSE LET pwd == Slice(sp[2], 0, idx)
                               host == Slice(sp[2], idx + 1, Len(sp[2]))
                           IN  IF Len(user) = 0 \/ Len(pwd) = 0 \/ Len(host) = 0
                               THEN [reg |-> reg, fatal |-> TRUE]
                               ELSE RegisterVsphereEntries(
                                        Vsphere(reg, user, pwd, host), Tail(entries))

\* Names of a list of collectors, in order.
Names(cs) == [i \in 1..Len(cs) |-> cs[i].name]

\* ---------------------------------------------------------------- readConf
\* One line of scollector.conf applied to the flags.
ApplyConfLine(f, line) ==
    LET sp == SplitN2(line, "=")
    IN  IF Len(sp) # 2 THEN f
        ELSE LET k == TrimSpace(sp[1])
                 v == TrimSpace(sp[2])
             IN  CASE k = kHost    -> [f EXCEPT !.Host = v]
                   [] k = kFilter  -> [f EXCEPT !.Filter = v]
                   [] k = kColDir  -> [f EXCEPT !.ColDir = v]
                   [] k = kSNMP    -> [f EXCEPT !.SNMP = v]
                   [] k = kICMP    -> [f EXCEPT !.ICMP = v]
                   [] k = kVsphere -> [f EXCEPT !.Vsphere = v]
                   [] OTHER        -> f

RECURSIVE ApplyConfLines(_, _)
ApplyConfLines(f, lines) ==
    IF lines = <<>> THEN f
    ELSE ApplyConfLines(ApplyConfLine(f, Head(lines)), Tail(lines))

\* readConf(): nothing changes when the file cannot be read.
readConf(f, cf) ==
    IF ~cf.readable THEN f
    ELSE ApplyConfLines(f, Split(cf.text, "\n"))

\* --------------------------------------------------------------- parseHost
sHTTP == <<"h", "t", "t", "p", ":", "/", "/">>
sSlashes == <<"/", "/">>

\* url.Parse fails on a "%" that starts no valid escape; the hosts tried hold
\* no valid escape, so any "%" is an error.
urlParseFails(s) == Contains(s, <<"%">>)

\* parseHost(): [host, u, err], host being the new value of *flagHost.
parseHost(host) ==
    IF host = EmptyStr
    THEN [host |-> host, u |-> [nil |-> TRUE, url |-> EmptyStr], err |-> TRUE]
    ELSE LET h == IF ~Contains(host, sSlashes) THEN sHTTP \o host ELSE host
         IN  IF urlParseFails(h)
             THEN [host |-> h, u |-> [nil |-> TRUE, url |-> EmptyStr], err |-> TRUE]
             ELSE [host |-> h, u |-> [nil |-> FALSE, url |-> h], err |-> FALSE]

\* ------------------------------------------------------------------ inputs
Unreadable == [readable |-> FALSE, text |-> EmptyStr]
ConfFile(text) == [readable |-> TRUE, text |-> text]

\* Command lines and configuration files that exercise the registration phase
\* (every one lists, or dies, before scheduling).
RegistrationInputs ==
    { [flag |-> [DefaultFlags EXCEPT !.List = TRUE, !.ICMP = i, !.Vsphere = v,
                                    !.SNMP = s, !.Fake = k, !.ColDir = d,
                                    !.Filter = f],
       conf |-> cf] :
        i \in {EmptyStr, sICMPTwice, sICMPTwo},
        v \in {EmptyStr, sVsphereOne, sVsphereSameHost, sVsphereBad},
        s \in {EmptyStr, sSNMPOne, sSNMPBad},
        k \in {0, 1},
        d \in {EmptyStr, sColDir},
        f \in {EmptyStr, sFilterIcmp, sFilterB},
        cf \in {Unreadable, ConfFile(sConfIcmp)} }

\* Command lines that exercise network delivery: one ICMP host, with or
\* without the fake collector.
NetInputs ==
    { [flag |-> [DefaultFlags EXCEPT !.List = l, !.Host = h, !.BatchSize = b,
                                    !.ICMP = sHostA, !.Fake = k],
       conf |-> Unreadable] :
        l \in BOOLEAN, h \in {sBosun, EmptyStr, sBadURL},
        b \in 0..MaxFlagBatch, k \in {0, 1} }

\* Command lines that print to the screen (-p -m, with or without -j).
PrintInputs ==
    { [flag |-> [DefaultFlags EXCEPT !.List = l, !.PrintFlag = TRUE, !.Host = h,
                                    !.ICMP = sHostA, !.Fake = k,
                                    !.DisableMetadata = TRUE, !.JSON = j],
       conf |-> Unreadable] :
        l \in BOOLEAN, h \in {sBosun, EmptyStr, sBadURL},
        k \in {0, 1}, j \in BOOLEAN }

\* Command lines whose host comes from scollector.conf, and -version.
OtherInputs ==
    { [flag |-> [DefaultFlags EXCEPT !.List = l, !.PrintFlag = p, !.Version = ver],
       conf |-> ConfFile(sConfHostEmpty)] :
        l \in BOOLEAN, p \in BOOLEAN, ver \in BOOLEAN }

Inputs == RegistrationInputs \cup NetInputs \cup PrintInputs \cup OtherInputs

\* -------------------------------------------------------------------- main
Running == status = "running"

\* Package initialisation, before main(): system_windows.go registers itself.
PackageInit ==
    /\ Running /\ pc = "pkginit"
    /\ registry' = RegisterSystemWindows(registry)
    /\ pc' = "version"
    /\ UNCHANGED <<flag, conf, status, c, initFailed, u, err, listed,
                   metadataStarted, defaultFreq, runVars, colVars>>

\* if *flagVersion { ...; os.Exit(0) }
Version ==
    /\ Running /\ pc = "version"
    /\ IF flag.Version
       THEN status' = "exit0" /\ pc' = pc
       ELSE status' = status /\ pc' = "readConf"
    /\ UNCHANGED <<flag, conf, registry, c, initFailed, u, err, listed,
                   metadataStarted, defaultFreq, runVars, colVars>>

\* for _, m := range mains { m() } (nothing appends to mains); readConf()
ReadConf ==
    /\ Running /\ pc = "readConf"
    /\ flag' = readConf(flag, conf)
    /\ pc' = "programs"
    /\ UNCHANGED <<conf, status, registry, c, initFailed, u, err, listed,
                   metadataStarted, defaultFreq, runVars, colVars>>

\* if *flagColDir != "" { collectors.InitPrograms(*flagColDir) }
Programs ==
    /\ Running /\ pc = "programs"
    /\ registry' = IF flag.ColDir # EmptyStr
                   THEN InitPrograms(registry, flag.ColDir) ELSE registry
    /\ pc' = "snmp"
    /\ UNCHANGED <<flag, conf, status, c, initFailed, u, err, listed,
                   metadataStarted, defaultFreq, runVars, colVars>>

\* if *flagSNMP != "" { for ... }
SNMP ==
    /\ Running /\ pc = "snmp"
    /\ LET r == IF flag.SNMP # EmptyStr
                THEN RegisterSNMPEntries(registry, Split(flag.SNMP, ","))
                ELSE [reg |-> registry, fatal |-> FALSE]
       IN  /\ registry' = r.reg
           /\ IF r.fatal
              THEN status' = "fatal_snmp" /\ pc' = pc
              ELSE status' = status /\ pc' = "icmp"
    /\ UNCHANGED <<flag, conf, c, initFailed, u, err, listed,
                   metadataStarted, defaultFreq, runVars, colVars>>

\* if *flagICMP != "" { for ... collectors.ICMP(s) }
RegisterICMP ==
    /\ Running /\ pc = "icmp"
    /\ registry' = IF flag.ICMP # EmptyStr
                   THEN RegisterICMPHosts(registry, Split(flag.ICMP, ","))
                   ELSE registry
    /\ pc' = "vsphere"
    /\ UNCHANGED <<flag, conf, status, c, initFailed, u, err, listed,
                   metadataStarted, defaultFreq, runVars, colVars>>

\* if *flagVsphere != "" { for ... collectors.Vsphere(user, pwd, host) }
RegisterVsphere ==
    /\ Running /\ pc = "vsphere"
    /\ LET r == IF flag.Vsphere # EmptyStr
                THEN RegisterVsphereEntries(registry, Split(flag.Vsphere, ","))
                ELSE [reg |-> registry, fatal |-> FALSE]
       IN  /\ registry' = r.reg
           /\ IF r.fatal
              THEN status' = "fatal_vsphere" /\ pc' = pc
              ELSE status' = status /\ pc' = "fake"
    /\ UNCHANGED <<flag, conf, c, initFailed, u, err, listed,
                   metadataStarted, defaultFreq, runVars, colVars>>

\* Fake, with the registration moved behind the start of the scheduler.
FakeLate ==
    /\ Running
    /\ \/ pc = "fake" /\ pc' = "search" /\ registry' = registry
       \/ /\ pc \in {"select", "printPut"} /\ pc' = pc
          /\ flag.Fake > 0
          /\ \A k \in DOMAIN registry : registry[k].kind # "fake"
          /\ registry' = InitFake(registry, flag.Fake)
    /\ UNCHANGED <<flag, conf, status, c, initFailed, u, err, listed,
                   metadataStarted, defaultFreq, runVars, colVars>>

\* if *flagFake > 0 { collectors.InitFake(*flagFake) }
Fake ==
    /\ Running /\ pc = "fake"
    /\ registry' = IF flag.Fake > 0 THEN InitFake(registry, flag.Fake) ELSE registry
    /\ pc' = "search"
    /\ UNCHANGED <<flag, conf, status, c, initFailed, u, err, listed,
                   metadataStarted, defaultFreq, runVars, colVars>>

\* c := collectors.Search(*flagFilter)
DoSearch ==
    /\ Running /\ pc = "search"
    /\ c' = Search(registry, flag.Filter)
    /\ pc' = "init"
    /\ UNCHANGED <<flag, conf, status, registry, initFailed, u, err, listed,
                   metadataStarted, defaultFreq, runVars, colVars>>

\* for _, col := range c { col.Init() }: each hook runs once and may fail;
\* nothing of its outcome is kept by main.
InitAll ==
    /\ Running /\ pc = "init"
    /\ \E F \in SUBSET {i \in 1..Len(c) : c[i].hook} : initFailed' = F
    /\ pc' = "parseHost"
    /\ UNCHANGED <<flag, conf, status, registry, c, u, err, listed,
                   metadataStarted, defaultFreq, runVars, colVars>>

\* u, err := parseHost()
ParseHost ==
    /\ Running /\ pc = "parseHost"
    /\ LET r == parseHost(flag.Host)
       IN  /\ flag' = [flag EXCEPT !.Host = r.host]
           /\ u' = r.u
           /\ err' = r.err
    /\ pc' = "list"
    /\ UNCHANGED <<conf, status, registry, c, initFailed, listed,
                   metadataStarted, defaultFreq, runVars, colVars>>

\* ListOrFatal, with the return after list(c) forgotten.
ListOrFatalNoReturn ==
    /\ Running /\ pc = "list"
    /\ IF flag.List
       THEN listed' = Names(c) /\ status' = status /\ pc' = "metadata"
       ELSE IF err
            THEN listed' = listed /\ status' = "fatal_host" /\ pc' = pc
            ELSE listed' = listed /\ status' = status /\ pc' = "metadata"
    /\ UNCHANGED <<flag, conf, registry, c, initFailed, u, err,
                   metadataStarted, defaultFreq, runVars, colVars>>

\* if *flagList { list(c); return } else if err != nil { slog.Fatal(...) }
ListOrFatal ==
    /\ Running /\ pc = "list"
    /\ IF flag.List
       THEN listed' = Names(c) /\ status' = "returned" /\ pc' = pc
       ELSE IF err
            THEN listed' = listed /\ status' = "fatal_host" /\ pc' = pc
            ELSE listed' = listed /\ status' = status /\ pc' = "metadata"
    /\ UNCHANGED <<flag, conf, registry, c, initFailed, u, err,
                   metadataStarted, defaultFreq, runVars, colVars>>

\* if !*flagDisableMetadata { if err := metadata.Init(u, ...); err != nil { Fatal } }
Metadata ==
    /\ Running /\ pc = "metadata"
    /\ IF flag.DisableMetadata
       THEN metadataStarted' = metadataStarted /\ status' = status /\ pc' = "freq"
       ELSE \E ok \in BOOLEAN :
                IF ok
                THEN metadataStarted' = TRUE /\ status' = status /\ pc' = "freq"
                ELSE metadataStarted' = metadataStarted
                     /\ status' = "fatal_metadata" /\ pc' = pc
    /\ UNCHANGED <<flag, conf, registry, c, initFailed, u, err, listed,
                   defaultFreq, runVars, colVars>>

\* if *flagPrint { collectors.DefaultFreq = time.Second * 3 }
Freq ==
    /\ Running /\ pc = "freq"
    /\ defaultFreq' = IF flag.PrintFlag THEN 3 ELSE defaultFreq
    /\ pc' = "run"
    /\ UNCHANGED <<flag, conf, status, registry, c, initFailed, u, err, listed,
                   metadataStarted, runVars, colVars>>

\* --------------------------------------------------------------- scheduler
\* The default of collect.BatchSize: in the hundreds in the program, scaled
\* here so that a run of a few Points can fill a batch.
DefaultBatchSize == 2

\* A Point, identified by the collector that made it (index in sched), the
\* invocation and its place in that invocation's sample batch.
Point(i, inv, idx) == [col |-> i, inv |-> inv, idx |-> idx]

\* The sample batch of invocation inv of collector i, n Points long.
SampleBatch(i, inv, n) == [idx \in 1..n |-> Point(i, inv, idx)]

RECURSIVE SumTo(_, _)
SumTo(f, n) == IF n = 0 THEN 0 ELSE f[n] + SumTo(f, n - 1)

Collects == SumTo(ncollect, Len(ncollect))

\* The collectors main hands to collectors.Run: all of c.
HandedToRun == c

\* cdp := collectors.Run(c)
Run ==
    /\ Running /\ pc = "run"
    /\ schedStarted' = TRUE
    /\ sched' = HandedToRun
    /\ pending' = [i \in 1..Len(HandedToRun) |-> <<>>]
    /\ ncollect' = [i \in 1..Len(HandedToRun) |-> 0]
    /\ pc' = "consumer"
    /\ UNCHANGED <<flag, conf, status, registry, c, initFailed, u, err, listed,
                   metadataStarted, defaultFreq, senderStarted, queue, BatchSize,
                   batches, printed, watchdogStarted, m, colVars>>

\* The test of main that selects network delivery.
UseNetwork == ~u.nil /\ ~flag.PrintFlag

\* StartConsumer, with printPut(cdp) run after the if instead of in its else.
StartConsumerBoth ==
    /\ Running /\ pc = "consumer"
    /\ IF ~u.nil /\ ~flag.PrintFlag
       THEN \E ok \in BOOLEAN :
                IF ok
                THEN senderStarted' = TRUE /\ status' = status /\ pc' = "printPut"
                ELSE senderStarted' = senderStarted
                     /\ status' = "fatal_initchan" /\ pc' = pc
       ELSE senderStarted' = senderStarted /\ status' = status /\ pc' = "printPut"
    /\ UNCHANGED <<flag, conf, registry, c, initFailed, u, err, listed,
                   metadataStarted, defaultFreq, schedStarted, sched, pending,
                   ncollect, queue, BatchSize, batches, printed, watchdogStarted,
                   m, colVars>>

\* if u != nil && !*flagPrint { collect.InitChan(...) } else { printPut(cdp) }
StartConsumer ==
    /\ Running /\ pc = "consumer"
    /\ IF UseNetwork
       THEN \E ok \in BOOLEAN :
                IF ok
                THEN senderStarted' = TRUE /\ status' = status /\ pc' = "putVersion"
                ELSE senderStarted' = senderStarted
                     /\ status' = "fatal_initchan" /\ pc' = pc
       ELSE senderStarted' = senderStarted /\ status' = status /\ pc' = "printPut"
    /\ UNCHANGED <<flag, conf, registry, c, initFailed, u, err, listed,
                   metadataStarted, defaultFreq, schedStarted, sched, pending,
                   ncollect, queue, BatchSize, batches, printed, watchdogStarted,
                   m, colVars>>

\* if VersionDate > 0 { collect.Put("version", nil, VersionDate) }
PutVersion ==
    /\ Running /\ pc = "putVersion"
    /\ queue' = IF VersionDate > 0 THEN Append(queue, Point(0, 0, 0)) ELSE queue
    /\ pc' = "batchSize"
    /\ UNCHANGED <<flag, conf, status, registry, c, initFailed, u, err, listed,
                   metadataStarted, defaultFreq, schedStarted, sched, pending,
                   ncollect, senderStarted, BatchSize, batches, printed,
                   watchdogStarted, m, colVars>>

\* if *flagBatchSize > 0 { collect.BatchSize = *flagBatchSize }
SetBatchSize ==
    /\ Running /\ pc = "batchSize"
    /\ BatchSize' = IF flag.BatchSize > 0 THEN flag.BatchSize ELSE BatchSize
    /\ pc' = "watchdog"
    /\ UNCHANGED <<flag, conf, status, registry, c, initFailed, u, err, listed,
                   metadataStarted, defaultFreq, schedStarted, sched, pending,
                   ncollect, senderStarted, queue, batches, printed,
                   watchdogStarted, m, colVars>>

\* go func() { ... }(): the watchdog goroutine; main then blocks in select {}.
GoWatchdog ==
    /\ Running /\ pc = "watchdog"
    /\ watchdogStarted' = TRUE
    /\ pc' = "select"
    /\ UNCHANGED <<flag, conf, status, registry, c, initFailed, u, err, listed,
                   metadataStarted, defaultFreq, schedStarted, sched, pending,
                   ncollect, senderStarted, queue, BatchSize, batches, printed,
                   m, colVars>>

\* One tick of a scheduled collector: collect() is invoked; on an error nothing is
\* forwarded, otherwise its sample batch waits to be sent on the pipeline.
Collect(i) ==
    /\ Running /\ schedStarted
    /\ pending[i] = <<>>
    /\ Collects < MaxCollects
    /\ ncollect' = [ncollect EXCEPT ![i] = @ + 1]
    /\ \E failed \in BOOLEAN, n \in 0..MaxBatchPoints :
           pending' = [pending EXCEPT ![i] =
                           IF failed THEN <<>> ELSE SampleBatch(i, ncollect[i] + 1, n)]
    /\ UNCHANGED <<mainVars, schedStarted, sched, senderStarted, queue, BatchSize,
                   batches, printed, watchdogStarted, m, colVars>>

\* The sender's reader takes the next Point of collector i off the pipeline.
Receive(i) ==
    /\ Running /\ senderStarted
    /\ pending[i] # <<>>
    /\ queue' = Append(queue, Head(pending[i]))
    /\ pending' = [pending EXCEPT ![i] = Tail(@)]
    /\ UNCHANGED <<mainVars, schedStarted, sched, ncollect, senderStarted, BatchSize,
                   batches, printed, watchdogStarted, m, colVars>>

\* The sender cuts a batch of at most BatchSize Points off its queue and
\* hands it to delivery.
Send ==
    /\ Running /\ senderStarted
    /\ queue # <<>>
    /\ LET i == IF Len(queue) > BatchSize THEN BatchSize ELSE Len(queue)
       IN  /\ batches' = Append(batches, SubSeq(queue, 1, i))
           /\ queue' = SubSeq(queue, i + 1, Len(queue))
    /\ UNCHANGED <<mainVars, schedStarted, sched, pending, ncollect, senderStarted,
                   BatchSize, watchdogStarted, printed, m, colVars>>

\* The line printPut writes for a Point.
Render(dp) == [format |-> IF flag.JSON THEN "json" ELSE "telnet", dp |-> dp]

\* printPut(cdp): for dp := range c { slog.Info(...) }, in main's own thread.
PrintPut(i) ==
    /\ Running /\ pc = "printPut"
    /\ pending[i] # <<>>
    /\ printed' = Append(printed, Render(Head(pending[i])))
    /\ pending' = [pending EXCEPT ![i] = Tail(@)]
    /\ UNCHANGED <<mainVars, schedStarted, sched, ncollect, senderStarted, queue,
                   BatchSize, batches, watchdogStarted, m, colVars>>

\* WatchdogCheck, with the panic replaced by a report that returns.
WatchdogCheckNoPanic ==
    /\ Running /\ watchdogStarted
    /\ \E alloc \in MemValues : m' = alloc
    /\ UNCHANGED <<flag, conf, pc, status, registry, c, initFailed, u, err, listed,
                   metadataStarted, defaultFreq, schedStarted, sched, pending,
                   ncollect, senderStarted, queue, BatchSize, batches, printed,
                   watchdogStarted, colVars>>

\* One tick of the watchdog: runtime.ReadMemStats(&m); panic above maxMem.
WatchdogCheck ==
    /\ Running /\ watchdogStarted
    /\ \E alloc \in MemValues :
           /\ m' = alloc
           /\ status' = IF alloc > maxMem THEN "panic" ELSE status
    /\ UNCHANGED <<flag, conf, pc, registry, c, initFailed, u, err, listed,
                   metadataStarted, defaultFreq, schedStarted, sched, pending,
                   ncollect, senderStarted, queue, BatchSize, batches, printed,
                   watchdogStarted, colVars>>

\* -------------------------------------------------------------- collectors
\* Largest number of ping responses one c_icmp invocation handles.
MaxResponses == 2
\* Largest number of records one vSphere query returns.
MaxRecords == 2

\* util.Hostname, the value of the default host tag.
sHostname == <<"m">>

\* A tagset: a set of <<key, value>> pairs with unique keys.
HasKey(tags, k) == \E kv \in tags : kv[1] = k

\* collectors.Add: the caller's tags merged with the default tagset (the
\* caller's host tag wins), and the Point appended to the sample batch.
Add(md, metric, value, tags) ==
    Append(md, [metric |-> metric,
                value  |-> value,
                tags   |-> IF HasKey(tags, "host") THEN tags
                           ELSE tags \cup {<<"host", sHostname>>}])

\* ---- c_icmp
\* IcmpHandler, with timeout = 0 forgotten.
IcmpHandlerKeepsTimeout(st, rtt) ==
    [st EXCEPT !.md = Add(st.md, "ping.rtt", rtt, {<<"dst_host", st.host>>})]

\* The handler of "receive": one ping.rtt Point, and the timeout is cleared.
IcmpHandler(st, rtt) ==
    [st EXCEPT !.md = Add(st.md, "ping.rtt", rtt, {<<"dst_host", st.host>>}),
               !.timeout = 0]

\* What c_icmp returns when p.Run() has returned without error.
IcmpSuccess(st) ==
    [md  |-> Add(st.md, "ping.timeout", st.timeout, {<<"dst_host", st.host>>}),
     err |-> FALSE]

\* What c_icmp returns on an error: return nil, err.
IcmpFailure(st) == [md |-> <<>>, err |-> TRUE]

IcmpIdle ==
    [pc |-> "idle", host |-> EmptyStr, resolves |-> FALSE, network |-> <<>>,
     md |-> <<>>, timeout |-> 1, received |-> <<>>, ret |-> [md |-> <<>>, err |-> FALSE]]

\* An invocation of c_icmp(host): whether the host resolves, and the round
\* trip times of the responses on their way.
IcmpStart(host, resolves, network) ==
    [IcmpIdle EXCEPT !.pc = "resolve", !.host = host, !.resolves = resolves,
                     !.network = network]

\* ra, err := net.ResolveIPAddr(...); if err != nil { return nil, err };
\* timeout := 1; p.AddHandler(...)
IcmpResolve ==
    /\ icmp.pc = "resolve"
    /\ icmp' = IF icmp.resolves
               THEN [icmp EXCEPT !.pc = "run", !.timeout = 1]
               ELSE [icmp EXCEPT !.pc = "done", !.ret = IcmpFailure(icmp)]
    /\ UNCHANGED <<mainVars, runVars, vs>>

\* During p.Run(): a response arrives and the handler runs.
IcmpReceive ==
    /\ icmp.pc = "run"
    /\ icmp.network # <<>>
    /\ icmp' = [IcmpHandler(icmp, Head(icmp.network))
                    EXCEPT !.network = Tail(icmp.network),
                           !.received = Append(icmp.received, Head(icmp.network))]
    /\ UNCHANGED <<mainVars, runVars, vs>>

\* p.Run() returns, with or without an error, whatever is still on its way.
IcmpRunReturns ==
    /\ icmp.pc = "run"
    /\ \E failed \in BOOLEAN :
           icmp' = [icmp EXCEPT !.pc = "done",
                                !.ret = IF failed THEN IcmpFailure(icmp)
                                        ELSE IcmpSuccess(icmp)]
    /\ UNCHANGED <<mainVars, runVars, vs>>

\* ---- c_vsphere
Digits == <<"0", "1", "2", "3", "4", "5", "6", "7", "8", "9">>

IsDigit(ch) == \E d \in 1..10 : Digits[d] = ch

DigitValue(ch) == (CHOOSE d \in 1..10 : Digits[d] = ch) - 1

RECURSIVE ParseDigits(_, _)
ParseDigits(s, acc) ==
    IF s = <<>> THEN acc
    ELSE ParseDigits(Tail(s), acc * 10 + DigitValue(Head(s)))

\* strconv.ParseInt(s, 10, 64) on the values tried (all within int64):
\* an optional sign and at least one digit, anything else is an error.
ParseInt(s) ==
    LET signed == s # <<>> /\ Head(s) \in {"-", "+"}
        body == IF signed THEN Tail(s) ELSE s
    IN  IF body = <<>> \/ \E k \in 1..Len(body) : ~IsDigit(body[k])
        THEN [err |-> TRUE, i |-> 0]
        ELSE [err |-> FALSE,
              i |-> IF signed /\ Head(s) = "-" THEN 0 - ParseDigits(body, 0)
                    ELSE ParseDigits(body, 0)]

\* util.Clean: the characters that are not valid in a name are dropped.
RECURSIVE Clean(_)
Clean(s) ==
    IF s = <<>> THEN <<>>
    ELSE (IF Head(s) = " " THEN <<>> ELSE <<Head(s)>>) \o Clean(Tail(s))

Prop(name, type, inner) == [Name |-> name, Type |-> type, Inner |-> inner]

IntTypes == {"xsd:long", "xsd:int", "xsd:short"}

\* The first loop over r.Props: the Inner of the first prop called "name".
RECURSIVE NameOf(_)
NameOf(props) ==
    IF props = <<>> THEN EmptyStr
    ELSE IF Head(props).Name = "name" THEN Head(props).Inner
    ELSE NameOf(Tail(props))

\* A percentage float64(a)/float64(b)*100, kept as the fraction it is.
Pct(a, b) == [num |-> a * 100, den |-> b]

\* vsphereHost: one prop of one record. a is the loop's state.
HostProp(a, p, name) ==
    IF p.Type \notin IntTypes THEN a
    ELSE LET r == ParseInt(p.Inner)
             i == r.i
             tags == {<<"host", name>>}
         IN  IF r.err THEN [a EXCEPT !.Error = TRUE]
             ELSE CASE p.Name = "summary.hardware.memorySize" ->
                         [a EXCEPT !.md = Add(a.md, "os.mem.total", i, tags),
                                   !.memTotal = i]
                    [] p.Name = "summary.quickStats.overallMemoryUsage" ->
                         [a EXCEPT !.md = Add(a.md, "os.mem.used", i * 1024 * 1024, tags),
                                   !.memUsed = i * 1024 * 1024]
                    [] p.Name = "summary.hardware.cpuMhz" ->
                         [a EXCEPT !.cpuMhz = i]
                    [] p.Name = "summary.quickStats.overallCpuUsage" ->
                         [a EXCEPT !.md = Add(a.md, "vsphere.cpu", i,
                                              {<<"host", name>>, <<"type", "usage">>}),
                                   !.cpuUse = i]
                    [] p.Name = "summary.hardware.numCpuCores" ->
                         [a EXCEPT !.cpuCores = i]
                    [] OTHER -> a

RECURSIVE HostProps(_, _, _)
HostProps(a, props, name) ==
    IF props = <<>> THEN a
    ELSE HostProps(HostProp(a, Head(props), name), Tail(props), name)

\* vsphereHost: one record. st is [md, Error].
HostRecord(st, r) ==
    LET name == Clean(NameOf(r.props))
    IN  IF name = EmptyStr THEN [st EXCEPT !.Error = TRUE]
        ELSE LET tags == {<<"host", name>>}
                 a0 == [md |-> st.md, Error |-> st.Error, memTotal |-> 0,
                        memUsed |-> 0, cpuMhz |-> 0, cpuCores |-> 0, cpuUse |-> 0]
                 a1 == HostProps(a0, r.props, name)
                 md1 == IF a1.memTotal > 0 /\ a1.memUsed > 0
                        THEN Add(Add(a1.md, "os.mem.free", a1.memTotal - a1.memUsed, tags),
                                 "os.mem.percent_free",
                                 Pct(a1.memTotal - a1.memUsed, a1.memTotal), tags)
                        ELSE a1.md
                 md2 == IF a1.cpuMhz > 0 /\ a1.cpuUse > 0 /\ a1.cpuCores > 0
                        THEN Add(Add(md1, "vsphere.cpu",
                                     a1.cpuMhz * a1.cpuCores - a1.cpuUse,
                                     {<<"host", name>>, <<"type", "idle">>}),
                                 "vsphere.cpu.pct",
                                 Pct(a1.cpuUse, a1.cpuMhz * a1.cpuCores), tags)
                        ELSE md1
             IN  [md |-> md2, Error |-> a1.Error]

RECURSIVE HostRecords(_, _)
HostRecords(st, res) ==
    IF res = <<>> THEN st
    ELSE HostRecords(HostRecord(st, Head(res)), Tail(res))

\* vsphereHost(v, md): [md, Error]; info is what v.Info("HostSystem", ...) gives.
vsphereHost(info, md) ==
    IF info.err THEN [md |-> md, Error |-> TRUE]
    ELSE HostRecords([md |-> md, Error |-> FALSE], info.res)

\* vsphereDatastore: one prop of one record.
DatastoreProp(a, p, tags) ==
    IF p.Type \notin IntTypes THEN a
    ELSE LET r == ParseInt(p.Inner)
             i == r.i
         IN  IF r.err THEN [a EXCEPT !.Error = TRUE]
             ELSE CASE p.Name = "summary.capacity" ->
                         [a EXCEPT !.md = Add(Add(a.md, "os.disk.fs.space_total", i, tags),
                                              "vsphere.disk.space_total", i, tags),
                                   !.diskTotal = i]
                    [] p.Name = "summary.freeSpace" ->
                         [a EXCEPT !.md = Add(a.md, "vsphere.disk.space_free", i, tags),
                                   !.diskFree = i]
                    [] OTHER -> a

RECURSIVE DatastoreProps(_, _, _)
DatastoreProps(a, props, tags) ==
    IF props = <<>> THEN a
    ELSE DatastoreProps(DatastoreProp(a, Head(props), tags), Tail(props), tags)

\* vsphereDatastore: one record (the name is not cleaned here).
DatastoreRecord(st, r) ==
    LET name == NameOf(r.props)
    IN  IF name = EmptyStr THEN [st EXCEPT !.Error = TRUE]
        ELSE LET tags == {<<"disk", name>>, <<"host", EmptyStr>>}
                 a0 == [md |-> st.md, Error |-> st.Error, diskTotal |-> 0, diskFree |-> 0]
                 a1 == DatastoreProps(a0, r.props, tags)
                 used == a1.diskTotal - a1.diskFree
                 md1 == IF a1.diskTotal > 0 /\ a1.diskFree > 0
                        THEN Add(Add(Add(a1.md, "vsphere.disk.space_used", used, tags),
                                     "os.disk.fs.space_used", used, tags),
                                 "os.disk.fs.percent_free",
                                 Pct(a1.diskFree, a1.diskTotal), tags)
                        ELSE a1.md
             IN  [md |-> md1, Error |-> a1.Error]

RECURSIVE DatastoreRecords(_, _)
DatastoreRecords(st, res) ==
    IF res = <<>> THEN st
    ELSE DatastoreRecords(DatastoreRecord(st, Head(res)), Tail(res))

\* vsphereDatastore(v, md): [md, Error].
vsphereDatastore(info, md) ==
    IF info.err THEN [md |-> md, Error |-> TRUE]
    ELSE DatastoreRecords([md |-> md, Error |-> FALSE], info.res)

\* c_vsphere, returning md, err instead of nil, err after a failure.
c_vsphereKeepsPartial(in) ==
    IF ~in.connects THEN [md |-> <<>>, err |-> TRUE]
    ELSE LET h == vsphereHost(in.hosts, <<>>)
         IN  IF h.Error THEN [md |-> h.md, err |-> TRUE]
             ELSE LET d == vsphereDatastore(in.datastores, h.md)
                  IN  IF d.Error THEN [md |-> d.md, err |-> TRUE]
                      ELSE [md |-> d.md, err |-> FALSE]

\* c_vsphere(user, pwd, host): [md, err].
c_vsphere(in) ==
    IF ~in.connects THEN [md |-> <<>>, err |-> TRUE]
    ELSE LET h == vsphereHost(in.hosts, <<>>)
         IN  IF h.Error THEN [md |-> <<>>, err |-> TRUE]
             ELSE LET d == vsphereDatastore(in.datastores, h.md)
                  IN  IF d.Error THEN [md |-> <<>>, err |-> TRUE]
                      ELSE [md |-> d.md, err |-> FALSE]

\* The HostSystem records tried.
sNameH == <<"e", "s", "x">>
sBlank == <<" ">>
HostGood ==
    [props |-> << Prop("name", "xsd:string", sNameH),
                  Prop("summary.hardware.numCpuCores", "xsd:short", <<"2">>),
                  Prop("summary.hardware.cpuMhz", "xsd:int", <<"3">>),
                  Prop("summary.hardware.memorySize", "xsd:long",
                       <<"4", "1", "9", "4", "3", "0", "4">>),
                  Prop("summary.quickStats.overallCpuUsage", "xsd:int", <<"1">>),
                  Prop("summary.quickStats.overallMemoryUsage", "xsd:int", <<"1">>) >>]
HostNoName ==
    [props |-> << Prop("summary.hardware.memorySize", "xsd:long", <<"8">>) >>]
HostBlankName ==
    [props |-> << Prop("name", "xsd:string", sBlank),
                  Prop("summary.hardware.memorySize", "xsd:long", <<"8">>) >>]
HostBadInt ==
    [props |-> << Prop("name", "xsd:string", sNameH),
                  Prop("summary.hardware.memorySize", "xsd:long", <<"8">>),
                  Prop("summary.hardware.cpuMhz", "xsd:int", <<"x">>) >>]
HostRecordsTried == {HostGood, HostNoName, HostBlankName, HostBadInt}

\* The Datastore records tried.
sNameD == <<"d", "s">>
DatastoreGood ==
    [props |-> << Prop("name", "xsd:string", sNameD),
                  Prop("summary.capacity", "xsd:long", <<"9">>),
                  Prop("summary.freeSpace", "xsd:long", <<"4">>) >>]
DatastoreNoName ==
    [props |-> << Prop("summary.capacity", "xsd:long", <<"9">>) >>]
DatastoreBadInt ==
    [props |-> << Prop("name", "xsd:string", sNameD),
                  Prop("summary.capacity", "xsd:long", <<"9">>),
                  Prop("summary.freeSpace", "xsd:long", <<"-">>) >>]
DatastoreRecordsTried == {DatastoreGood, DatastoreNoName, DatastoreBadInt}

SeqsUpTo(S, n) == UNION {[1..k -> S] : k \in 0..n}

\* What v.Info can answer: an error, or some records.
InfoAnswers(S) ==
    {[err |-> TRUE, res |-> <<>>]}
        \cup {[err |-> FALSE, res |-> r] : r \in SeqsUpTo(S, MaxRecords)}

VsIdle ==
    [pc |-> "idle",
     in |-> [connects |-> FALSE, hosts |-> [err |-> TRUE, res |-> <<>>],
             datastores |-> [err |-> TRUE, res |-> <<>>]],
     ret |-> [md |-> <<>>, err |-> FALSE]]

VsStart(in) == [VsIdle EXCEPT !.pc = "start", !.in = in]

\* One invocation of c_vsphere.
VsphereCollect ==
    /\ vs.pc = "start"
    /\ vs' = [vs EXCEPT !.pc = "done", !.ret = c_vsphere(vs.in)]
    /\ UNCHANGED <<mainVars, runVars, icmp>>

\* ------------------------------------------------------------ specification
Init ==
    /\ \E in \in Inputs : flag = in.flag /\ conf = in.conf
    /\ pc = "pkginit"
    /\ status = "running"
    /\ registry = <<>>
    /\ c = <<>>
    /\ initFailed = {}
    /\ u = [nil |-> TRUE, url |-> EmptyStr]
    /\ err = FALSE
    /\ listed = <<>>
    /\ metadataStarted = FALSE
    /\ defaultFreq = 0
    /\ schedStarted = FALSE
    /\ sched = <<>>
    /\ pending = <<>>
    /\ ncollect = <<>>
    /\ senderStarted = FALSE
    /\ queue = <<>>
    /\ BatchSize = DefaultBatchSize
    /\ batches = <<>>
    /\ printed = <<>>
    /\ watchdogStarted = FALSE
    /\ m = 0
    /\ icmp = IcmpIdle
    /\ vs = VsIdle

Startup ==
    \/ PackageInit \/ Version \/ ReadConf \/ Programs \/ SNMP \/ RegisterICMP
    \/ RegisterVsphere \/ Fake \/ DoSearch \/ InitAll \/ ParseHost \/ ListOrFatal
    \/ Metadata \/ Freq \/ Run \/ StartConsumer \/ PutVersion \/ SetBatchSize
    \/ GoWatchdog

CollectSome == \E i \in DOMAIN pending : Collect(i)

ReceiveSome == \E i \in DOMAIN pending : Receive(i)

PrintPutSome == \E i \in DOMAIN pending : PrintPut(i)

Next ==
    \/ Startup
    \/ CollectSome
    \/ ReceiveSome
    \/ PrintPutSome
    \/ Send
    \/ WatchdogCheck

Spec == Init /\ [][Next]_vars

\* One invocation of one collector, on every input tried; main is parked.
InitCollect ==
    /\ flag = DefaultFlags
    /\ conf = Unreadable
    /\ pc = "collect"
    /\ status = "running"
    /\ registry = <<>>
    /\ c = <<>>
    /\ initFailed = {}
    /\ u = [nil |-> TRUE, url |-> EmptyStr]
    /\ err = FALSE
    /\ listed = <<>>
    /\ metadataStarted = FALSE
    /\ defaultFreq = 0
    /\ schedStarted = FALSE
    /\ sched = <<>>
    /\ pending = <<>>
    /\ ncollect = <<>>
    /\ senderStarted = FALSE
    /\ queue = <<>>
    /\ BatchSize = DefaultBatchSize
    /\ batches = <<>>
    /\ printed = <<>>
    /\ watchdogStarted = FALSE
    /\ m = 0
    /\ \/ /\ vs = VsIdle
          /\ \E host \in {sHostA, sHostB}, resolves \in BOOLEAN,
                network \in SeqsUpTo({1, 2}, MaxResponses) :
                 icmp = IcmpStart(host, resolves, network)
       \/ /\ icmp = IcmpIdle
          /\ \E connects \in BOOLEAN, hosts \in InfoAnswers(HostRecordsTried),
                datastores \in InfoAnswers(DatastoreRecordsTried) :
                 vs = VsStart([connects |-> connects, hosts |-> hosts,
                               datastores |-> datastores])

NextCollect ==
    \/ IcmpResolve
    \/ IcmpReceive
    \/ IcmpRunReturns
    \/ VsphereCollect

SpecCollect == InitCollect /\ [][NextCollect]_vars

\* ------------------------------------------------------------------ claims
\* Positions of main at which the registration phase is not yet over.
RegistrationPcs ==
    {"pkginit", "version", "readConf", "programs", "snmp", "icmp", "vsphere", "fake"}

\* Positions of main behind the choice of the consumer.
AfterConsumerPcs == {"putVersion", "batchSize", "watchdog", "select", "printPut"}

RECURSIVE Flatten(_)
Flatten(ss) == IF ss = <<>> THEN <<>> ELSE Head(ss) \o Flatten(Tail(ss))

\* The Points taken off the pipeline so far, by whoever took them.
ConsumedBySender == Flatten(batches) \o queue
ConsumedByPrinter == [k \in 1..Len(printed) |-> printed[k].dp]
Consumed == ConsumedBySender \o ConsumedByPrinter

\* C1: a collector whose init hook failed is not among the collectors handed
\* to collectors.Run, and its collect() is never invoked.
C1_InitFailureExcludes ==
    schedStarted =>
        \A i \in initFailed :
            /\ \A j \in DOMAIN sched : sched[j] # c[i]
            /\ \A j \in DOMAIN ncollect : sched[j] = c[i] => ncollect[j] = 0

\* C2: with an empty host setting and no -l, the process is not ended by the
\* missing endpoint: behind parseHost it is still running.
C2_EmptyHostRunsLocalSink ==
    (pc = "list" /\ flag.Host = EmptyStr /\ ~flag.List) => status = "running"

\* C3: with -b b, b > 0, no batch handed to delivery holds more than b Points,
\* whenever the sender formed it.
C3_BatchWithinConfigured ==
    flag.BatchSize > 0 =>
        \A k \in DOMAIN batches : Len(batches[k]) <= flag.BatchSize

C5_ErrorReturnsNoPoints ==
    /\ (icmp.pc = "done" /\ icmp.ret.err) => icmp.ret.md = <<>>
    /\ (vs.pc = "done" /\ vs.ret.err) => vs.ret.md = <<>>

\* C5 witness: c_vsphere failed in the datastore query after the host query
\* had added Points.
C5_Witness ==
    /\ vs.pc = "done" /\ vs.ret.err /\ vs.in.connects
    /\ ~vsphereHost(vs.in.hosts, <<>>).Error
    /\ vsphereHost(vs.in.hosts, <<>>).md # <<>>

\* C6: once main has chosen, exactly one of the sender and printPut drains the
\* pipeline; every Point taken off the pipeline was made by a collect() call,
\* is no longer pending, and was taken once, by that one consumer.
C6_ExactlyOneConsumer ==
    /\ ~(senderStarted /\ pc = "printPut")
    /\ pc \in AfterConsumerPcs => (senderStarted <=> pc # "printPut")
    /\ (Consumed # <<>>) => (schedStarted /\ pc \in AfterConsumerPcs)
    /\ senderStarted => ConsumedByPrinter = <<>>
    /\ pc = "printPut" => ConsumedBySender = <<>>
    /\ \A k, l \in DOMAIN Consumed : k # l => Consumed[k] # Consumed[l]
    /\ \A k \in DOMAIN Consumed :
           LET dp == Consumed[k]
           IN  /\ dp.col \in DOMAIN sched
               /\ dp.inv \in 1..ncollect[dp.col]
               /\ \A l \in DOMAIN pending[dp.col] : pending[dp.col][l] # dp

\* C6 witness: the sender has delivered one Point and holds another.
C6_Witness == senderStarted /\ batches # <<>> /\ queue # <<>>

\* C7: the registry only grows, and not at all once main has reached
\* collectors.Search; nothing is registered while the scheduler runs.
C7_RegistryFrozen ==
    [][/\ Len(registry) <= Len(registry')
       /\ SubSeq(registry', 1, Len(registry)) = registry
       /\ (pc \notin RegistrationPcs \/ schedStarted) => registry' = registry]_vars

\* C7 witness: the scheduler runs collectors of three registrations.
C7_Witness == schedStarted /\ Len(registry) >= 3 /\ Collects > 0

\* C8: behind the registration phase no two registered collectors have the
\* same name.
C8_UniqueNames ==
    pc \notin RegistrationPcs =>
        \A i, j \in DOMAIN registry :
            i # j => registry[i].name # registry[j].name

\* C9: with -l the selected names are printed in registry order and main
\* returns; the scheduler, the sender and the watchdog are never started and
\* no collect() is invoked. main returns this way only with -l.
C9_ListOnly ==
    /\ flag.List =>
           /\ ~schedStarted /\ ~senderStarted /\ ~watchdogStarted
           /\ ncollect = <<>> /\ printed = <<>>
           /\ pc \in RegistrationPcs \cup {"search", "init", "parseHost", "list"}
    /\ status = "returned" =>
           /\ flag.List
           /\ listed = Names(SelectSeq(registry,
                                       LAMBDA col : Contains(col.name, flag.Filter)))
    /\ status # "returned" => listed = <<>>

\* C9 witness: a listing that the filter narrowed to two names.
C9_Witness ==
    status = "returned" /\ Len(listed) = 2 /\ Len(registry) > 2

\* C10: a c_icmp invocation that returns no error returns the ping.rtt Points
\* of the responses, in the order received, then one ping.timeout Point whose
\* value is 1 without any response and 0 otherwise; every Point is tagged
\* dst_host = host.
C10_IcmpBatchShape ==
    (icmp.pc = "done" /\ ~icmp.ret.err) =>
        LET md == icmp.ret.md
            n == Len(md)
        IN  /\ n = Len(icmp.received) + 1
            /\ md[n].metric = "ping.timeout"
            /\ md[n].value = IF icmp.received = <<>> THEN 1 ELSE 0
            /\ \A k \in 1..(n - 1) :
                   md[k].metric = "ping.rtt" /\ md[k].value = icmp.received[k]
            /\ \A k \in 1..n : <<"dst_host", icmp.host>> \in md[k].tags

\* C10 witness: two responses with different round trip times were handled.
C10_Witness ==
    /\ icmp.pc = "done" /\ ~icmp.ret.err
    /\ Len(icmp.ret.md) = 3
    /\ icmp.ret.md[1].value # icmp.ret.md[2].value

====
